---------------------------- MODULE Spec2Model ----------------------------
(***************************************************************************)
(* Model of furigana-service/alignment.py: the character classifier, the   *)
(* run segmenter (segment_surface), the syllabary normalizer (to_hiragana) *)
(* and the alignment engine (align_furigana).                              *)
(*                                                                         *)
(* Strings are sequences of Unicode code points.  Positions into strings   *)
(* are 0-based, as in the Python source; TLA+ sequence indices are 1-based *)
(* and the conversions are explicit.                                       *)
(***************************************************************************)
EXTENDS Integers, Sequences, FiniteSets, TLC

VARIABLES
    surface,        \* align_furigana parameter `surface`
    reading_in,     \* align_furigana parameter `reading` as passed by the caller
    is_jukujikun,   \* align_furigana parameter `is_jukujikun`
    reading,        \* local `reading` (rebound to to_hiragana(reading) at line 113)
    segments,       \* local `segments`
    result,         \* local `result`: the list of emitted pieces
    reading_pos,    \* local `reading_pos`
    idx,            \* position of the `for ... in segments` loop (1-based run index)
    pc,             \* position in the function
    ret             \* returned string

vars == <<surface, reading_in, is_jukujikun, reading, segments, result,
          reading_pos, idx, pc, ret>>

---------------------------------------------------------------------------
(* Bounds of the model *)

MaxSurfaceLen == 4

MaxReadingLen == 2

MaxTextLen == 3

---------------------------------------------------------------------------
(* Input alphabets (code points)                                           *)
(*   39135 = U+98DF (a kanji)       12409 = U+3079 (hiragana BE)           *)
(*   12505 = U+30D9 (katakana BE)   12383 = U+305F (hiragana TA)           *)
(*   97 = 'a'   91 = '['   93 = ']'                                        *)

LBRACKET == 91

RBRACKET == 93

SurfaceAlphabet == {39135, 12409, 12505, 97, LBRACKET}

ReadingAlphabet == {12383, 12409, 12505, RBRACKET}

\* Code points on both sides of the classifier's block boundaries:
\* U+303F, U+3040, U+309F, U+30A0, U+30FF, U+3100, U+4E00, 'a'.
TextAlphabet == {12351, 12352, 12447, 12448, 12543, 12544, 19968, 97}

Str(A, n) == UNION {[1..k -> A] : k \in 0..n}

---------------------------------------------------------------------------
(* Character classifier *)

is_kanji(code) ==
    \/ (19968 <= code /\ code <= 40959)
    \/ (13312 <= code /\ code <= 19903)
    \/ (131072 <= code /\ code <= 173791)
    \/ (173824 <= code /\ code <= 177983)
    \/ (177984 <= code /\ code <= 178207)
    \/ (178208 <= code /\ code <= 183983)
    \/ (63744 <= code /\ code <= 64255)
    \/ (194560 <= code /\ code <= 195103)

is_hiragana(code) == 12352 <= code /\ code <= 12447

is_katakana(code) == 12448 <= code /\ code <= 12543

is_kana(code) == is_hiragana(code) \/ is_katakana(code)

\* Variant: the kanji and kana labels are exchanged.
char_type_swapped(code) ==
    IF is_kanji(code) THEN "KANA"
    ELSE IF is_kana(code) THEN "KANJI"
    ELSE "OTHER"

char_type(code) ==
    IF is_kanji(code) THEN "KANJI"
    ELSE IF is_kana(code) THEN "KANA"
    ELSE "OTHER"

---------------------------------------------------------------------------
(* Run segmenter *)

Run(text, type) == [text |-> text, type |-> type]

RECURSIVE segment_loop(_, _, _, _, _)
segment_loop(s, i, segs, current_text, current_type) ==
    IF i > Len(s) THEN Append(segs, Run(current_text, current_type))
    ELSE IF char_type(s[i]) = current_type
         THEN segment_loop(s, i + 1, segs, Append(current_text, s[i]), current_type)
         ELSE segment_loop(s, i + 1, Append(segs, Run(current_text, current_type)),
                           <<s[i]>>, char_type(s[i]))

\* Variant: the run under construction starts empty instead of with surface[0].
segment_surface_empty_start(s) ==
    IF s = <<>> THEN <<>>
    ELSE segment_loop(s, 2, <<>>, <<>>, char_type(s[1]))

segment_surface(s) ==
    IF s = <<>> THEN <<>>
    ELSE segment_loop(s, 2, <<>>, <<s[1]>>, char_type(s[1]))

---------------------------------------------------------------------------
(* Syllabary normalizer *)

\* Variant: a shift of 0x30 instead of 0x60.
to_hiragana_short_shift(text) ==
    [i \in 1..Len(text) |->
        IF is_katakana(text[i]) THEN text[i] - 48 ELSE text[i]]

to_hiragana(text) ==
    [i \in 1..Len(text) |->
        IF is_katakana(text[i]) THEN text[i] - 96 ELSE text[i]]

---------------------------------------------------------------------------
(* String helpers with the semantics of the Python built-ins used *)

Min(S) == CHOOSE x \in S : \A y \in S : x <= y

\* s[a:b] for 0 <= a, 0 <= b: out-of-range bounds are clamped, never an error.
Slice(s, a, b) ==
    LET hi == IF b > Len(s) THEN Len(s) ELSE b
    IN IF a >= hi THEN <<>> ELSE SubSeq(s, a + 1, hi)

\* s[a:]
SliceFrom(s, a) == Slice(s, a, Len(s))

\* hay.find(needle, start): lowest 0-based position >= start, or -1.
Find(hay, needle, start) ==
    LET hits == {p \in start..(Len(hay) - Len(needle)) :
                    Slice(hay, p, p + Len(needle)) = needle}
    IN IF hits = {} THEN -1 ELSE Min(hits)

\* ''.join(pieces)
RECURSIVE Join(_)
Join(pieces) ==
    IF pieces = <<>> THEN <<>> ELSE Head(pieces) \o Join(Tail(pieces))

\* ''.join([s[0] for s in segments[:i]])
SegmentPrefix(segs, i) ==
    Join([k \in 1..i |-> segs[k].text])

\* Variant: the closing bracket is left out of the format string.
Bracketed_unclosed(text, kanji_reading) ==
    text \o <<LBRACKET>> \o kanji_reading

\* f"{text}[{kanji_reading}]"
Bracketed(text, kanji_reading) ==
    text \o <<LBRACKET>> \o kanji_reading \o <<RBRACKET>>

---------------------------------------------------------------------------
(* Alignment engine: helpers of align_furigana *)

\* Variant: only an empty surface returns early.
input_empty_surface_only(s, rd) == s = <<>>

\* not surface or not reading
input_empty(s, rd) == s = <<>> \/ rd = <<>>

\* Variant: the reading is used as passed, without normalization.
normalize_reading_skipped(rd) == rd

\* reading = to_hiragana(reading)
normalize_reading(rd) == to_hiragana(rd)

\* all(seg_type == 'KANA' or seg_type == 'OTHER' for _, seg_type in segments)
all_kana(segs) ==
    \A k \in 1..Len(segs) : segs[k].type = "KANA" \/ segs[k].type = "OTHER"

\* len(segments) == 1 and segments[0][1] == 'KANJI'
single_kanji(segs) == Len(segs) = 1 /\ segs[1].type = "KANJI"

\* Variant: the flag alone brackets the whole surface as one unit.
jukujikun_unit_any_surface(flag, segs) == flag

\* is_jukujikun and len(segments) == 1 and segments[0][1] == 'KANJI'
jukujikun_unit(flag, segs) == flag /\ single_kanji(segs)

\* The lookahead's search for the "current position": the first 0-based i
\* in enumerate(segments) whose prefix text equals the joined output so far;
\* -1 when the loop ends without a break.
lookahead_index(segs, res) ==
    LET found == {i \in 0..(Len(segs) - 1) : SegmentPrefix(segs, i) = Join(res)}
    IN IF found = {} THEN -1 ELSE Min(found)

\* Variant: segments[i + 1] is read without the bounds guard.
has_following_unguarded(i, segs) == TRUE

\* i + 1 < len(segments), the bounds guard of segments[i + 1]
has_following(i, segs) == i + 1 < Len(segs)

\* The lookahead as a whole: `raised` when segments[i + 1] would be indexed
\* out of range, otherwise next_kana (<<>> stands for None: both are falsy).
lookahead(segs, res) ==
    LET i == lookahead_index(segs, res)
    IN IF i < 0 THEN [raised |-> FALSE, next_kana |-> <<>>]
       ELSE IF ~has_following(i, segs) THEN [raised |-> FALSE, next_kana |-> <<>>]
       ELSE IF i + 1 >= Len(segs) THEN [raised |-> TRUE, next_kana |-> <<>>]
       ELSE IF segs[i + 2].type = "KANA"
            THEN [raised |-> FALSE, next_kana |-> segs[i + 2].text]
            ELSE [raised |-> FALSE, next_kana |-> <<>>]

\* Variant: the kana is searched from the start of the reading, not from the
\* cursor.
kanji_step_search_from_start(rd, pos, next_kana) ==
    IF next_kana # <<>>
    THEN LET kana_pos == Find(rd, to_hiragana(next_kana), 0)
         IN IF kana_pos >= 0
            THEN [kanji_reading |-> Slice(rd, pos, kana_pos), reading_pos |-> kana_pos]
            ELSE [kanji_reading |-> SliceFrom(rd, pos), reading_pos |-> Len(rd)]
    ELSE [kanji_reading |-> SliceFrom(rd, pos), reading_pos |-> Len(rd)]

\* The reading slice assigned to a kanji run and the cursor after it.
kanji_step(rd, pos, next_kana) ==
    IF next_kana # <<>>
    THEN LET kana_pos == Find(rd, to_hiragana(next_kana), pos)
         IN IF kana_pos >= 0
            THEN [kanji_reading |-> Slice(rd, pos, kana_pos), reading_pos |-> kana_pos]
            ELSE [kanji_reading |-> SliceFrom(rd, pos), reading_pos |-> Len(rd)]
    ELSE [kanji_reading |-> SliceFrom(rd, pos), reading_pos |-> Len(rd)]

\* reading[reading_pos:reading_pos + len(kana_hiragana)] == kana_hiragana
kana_matches(rd, pos, segment_text) ==
    Slice(rd, pos, pos + Len(to_hiragana(segment_text))) = to_hiragana(segment_text)

\* Variant: the cursor advances whether or not the kana matches.
kana_step_always_advance(rd, pos, segment_text) ==
    pos + Len(to_hiragana(segment_text))

\* The cursor after a kana run.
kana_step(rd, pos, segment_text) ==
    IF kana_matches(rd, pos, segment_text)
    THEN pos + Len(to_hiragana(segment_text))
    ELSE pos

---------------------------------------------------------------------------
(* Alignment engine: one call of align_furigana *)

Init ==
    /\ surface \in Str(SurfaceAlphabet, MaxSurfaceLen)
    /\ reading_in \in Str(ReadingAlphabet, MaxReadingLen)
    /\ is_jukujikun \in BOOLEAN
    /\ reading = reading_in
    /\ segments = <<>>
    /\ result = <<>>
    /\ reading_pos = 0
    /\ idx = 0
    /\ pc = "call"
    /\ ret = <<>>

Return(value) ==
    /\ ret' = value
    /\ pc' = "done"

\* if not surface or not reading: return surface
ReturnEmptyInput ==
    /\ pc = "call"
    /\ input_empty(surface, reading)
    /\ Return(surface)
    /\ UNCHANGED <<surface, reading_in, is_jukujikun, reading, segments, result,
                   reading_pos, idx>>

\* The statements every later path runs first (lines 113 and 115).
Prepare ==
    /\ pc = "call"
    /\ ~input_empty(surface, reading)
    /\ reading' = normalize_reading(reading)
    /\ segments' = segment_surface(surface)

ReturnAllKana ==
    /\ Prepare
    /\ all_kana(segments')
    /\ Return(surface)
    /\ UNCHANGED <<surface, reading_in, is_jukujikun, result, reading_pos, idx>>

ReturnJukujikun ==
    /\ Prepare
    /\ ~all_kana(segments')
    /\ jukujikun_unit(is_jukujikun, segments')
    /\ Return(Bracketed(surface, reading'))
    /\ UNCHANGED <<surface, reading_in, is_jukujikun, result, reading_pos, idx>>

ReturnPureKanji ==
    /\ Prepare
    /\ ~all_kana(segments')
    /\ ~jukujikun_unit(is_jukujikun, segments')
    /\ single_kanji(segments')
    /\ Return(Bracketed(surface, reading'))
    /\ UNCHANGED <<surface, reading_in, is_jukujikun, result, reading_pos, idx>>

\* result = []; reading_pos = 0; enter the loop over segments
EnterGeneral ==
    /\ Prepare
    /\ ~all_kana(segments')
    /\ ~jukujikun_unit(is_jukujikun, segments')
    /\ ~single_kanji(segments')
    /\ result' = <<>>
    /\ reading_pos' = 0
    /\ idx' = 1
    /\ pc' = "loop"
    /\ UNCHANGED <<surface, reading_in, is_jukujikun, ret>>

InLoop == pc = "loop" /\ idx <= Len(segments)

ProcessKanji ==
    /\ InLoop
    /\ segments[idx].type = "KANJI"
    /\ LET la == lookahead(segments, result)
           step == kanji_step(reading, reading_pos, la.next_kana)
       IN IF la.raised
          THEN /\ pc' = "raised"
               /\ UNCHANGED <<result, reading_pos, idx>>
          ELSE /\ result' = Append(result,
                                   Bracketed(segments[idx].text, step.kanji_reading))
               /\ reading_pos' = step.reading_pos
               /\ idx' = idx + 1
               /\ pc' = pc
    /\ UNCHANGED <<surface, reading_in, is_jukujikun, reading, segments, ret>>

ProcessKana ==
    /\ InLoop
    /\ segments[idx].type = "KANA"
    /\ result' = Append(result, segments[idx].text)
    /\ reading_pos' = kana_step(reading, reading_pos, segments[idx].text)
    /\ idx' = idx + 1
    /\ UNCHANGED <<surface, reading_in, is_jukujikun, reading, segments, pc, ret>>

ProcessOther ==
    /\ InLoop
    /\ segments[idx].type = "OTHER"
    /\ result' = Append(result, segments[idx].text)
    /\ idx' = idx + 1
    /\ UNCHANGED <<surface, reading_in, is_jukujikun, reading, segments,
                   reading_pos, pc, ret>>

\* return ''.join(result)
ReturnJoined ==
    /\ pc = "loop"
    /\ idx > Len(segments)
    /\ Return(Join(result))
    /\ UNCHANGED <<surface, reading_in, is_jukujikun, reading, segments, result,
                   reading_pos, idx>>

Next ==
    \/ ReturnEmptyInput
    \/ ReturnAllKana
    \/ ReturnJukujikun
    \/ ReturnPureKanji
    \/ EnterGeneral
    \/ ProcessKanji
    \/ ProcessKana
    \/ ProcessOther
    \/ ReturnJoined

Spec == Init /\ [][Next]_vars

---------------------------------------------------------------------------
(* The segmenter and the normalizer applied on their own to arbitrary text *)

PureInit ==
    /\ surface \in Str(TextAlphabet, MaxTextLen)
    /\ reading_in = surface
    /\ is_jukujikun = FALSE
    /\ reading = surface
    /\ segments = <<>>
    /\ result = <<>>
    /\ reading_pos = 0
    /\ idx = 0
    /\ pc = "text"
    /\ ret = <<>>

\* segments = segment_surface(text)
CallSegment ==
    /\ pc = "text"
    /\ segments' = segment_surface(surface)
    /\ pc' = "segmented"
    /\ UNCHANGED <<surface, reading_in, is_jukujikun, reading, result,
                   reading_pos, idx, ret>>

\* reading = to_hiragana(text)
CallToHiragana ==
    /\ pc = "segmented"
    /\ reading' = to_hiragana(reading)
    /\ pc' = "normalized"
    /\ UNCHANGED <<surface, reading_in, is_jukujikun, segments, result,
                   reading_pos, idx, ret>>

\* ret = to_hiragana(reading), the normalizer applied to its own output
CallToHiraganaAgain ==
    /\ pc = "normalized"
    /\ ret' = to_hiragana(reading)
    /\ pc' = "renormalized"
    /\ UNCHANGED <<surface, reading_in, is_jukujikun, reading, segments, result,
                   reading_pos, idx>>

PureNext ==
    \/ CallSegment
    \/ CallToHiragana
    \/ CallToHiraganaAgain

PureSpec == PureInit /\ [][PureNext]_vars

---------------------------------------------------------------------------
(* Claims *)

\* C7: segment_surface returns runs whose texts concatenated in order
\* reproduce the string exactly, no two adjacent runs share a category, no
\* run is empty, and the empty string yields the empty sequence.
SegmentationPartition ==
    pc # "text" =>
        /\ Join([k \in 1..Len(segments) |-> segments[k].text]) = surface
        /\ \A k \in 1..Len(segments) : segments[k].text # <<>>
        /\ \A k \in 1..(Len(segments) - 1) : segments[k].type # segments[k + 1].type
        /\ (surface = <<>> => segments = <<>>)

\* A text of two runs, one of them longer than one character, was segmented.
SegmentationWitness ==
    /\ pc = "segmented"
    /\ Len(segments) = 2
    /\ Len(surface) = 3

\* C8: to_hiragana(to_hiragana(x)) = to_hiragana(x) for all x, to_hiragana(x) = x
\* for every x with no character in 30A0-30FF, and a character of 30A0-30FF
\* shifted down by 0x60 is not in 30A0-30FF.
NormalizerIdempotent ==
    /\ pc \in {"normalized", "renormalized"} =>
        /\ Len(reading) = Len(reading_in)
        /\ (\A i \in 1..Len(reading_in) : ~is_katakana(reading_in[i]))
               => reading = reading_in
        /\ \A i \in 1..Len(reading_in) :
               is_katakana(reading_in[i]) =>
                   /\ reading[i] = reading_in[i] - 96
                   /\ ~is_katakana(reading[i])
    /\ pc = "renormalized" => ret = reading

\* A text mixing both ends of 30A0-30FF with other characters went through
\* the normalizer twice.
NormalizerWitness ==
    /\ pc = "renormalized"
    /\ \E i, j, k \in 1..Len(reading_in) :
           /\ reading_in[i] = 12448
           /\ reading_in[j] = 12543
           /\ ~is_katakana(reading_in[k])

\* C9: align_furigana("", r, f) = "" for every reading r and flag f, and
\* align_furigana(s, "", f) = s for every surface s and flag f: no bracket,
\* not even an empty one, is added when the reading is empty.
EmptyInputIdentity ==
    (pc = "done" /\ (surface = <<>> \/ reading_in = <<>>)) => ret = surface

\* A call with a kanji surface and the empty reading has returned.
EmptyInputWitness ==
    /\ pc = "done"
    /\ reading_in = <<>>
    /\ surface # <<>>
    /\ \A i \in 1..Len(surface) : is_kanji(surface[i])

\* C6: align_furigana(s, r, false) = s whenever every character of s is
\* SYLLABARY or OTHER (that is, none is an ideograph), for every reading r.
AllKanaIdentity ==
    (/\ pc = "done"
     /\ ~is_jukujikun
     /\ \A i \in 1..Len(surface) : ~is_kanji(surface[i]))
        => ret = surface

\* A call without the flag, with a surface mixing both syllabaries and another
\* character and a non-empty reading, has returned.
AllKanaWitness ==
    /\ pc = "done"
    /\ ~is_jukujikun
    /\ reading_in # <<>>
    /\ \A i \in 1..Len(surface) : ~is_kanji(surface[i])
    /\ \E i, j, k \in 1..Len(surface) :
           /\ is_hiragana(surface[i])
           /\ is_katakana(surface[j])
           /\ ~is_kana(surface[k])

\* C5: for every surface that is exactly one IDEOGRAPH run and every non-empty
\* reading, align_furigana returns surface + "[" + normalize(reading) + "]",
\* with the compound-reading flag set or not.
SingleRunBracketed ==
    (/\ pc = "done"
     /\ surface # <<>>
     /\ reading_in # <<>>
     /\ \A i \in 1..Len(surface) : is_kanji(surface[i]))
        => ret = surface \o <<LBRACKET>> \o to_hiragana(reading_in) \o <<RBRACKET>>

\* A call with the flag set, a two-kanji surface and a reading holding a
\* katakana character has returned.
SingleRunWitness ==
    /\ pc = "done"
    /\ is_jukujikun
    /\ Len(surface) = 2
    /\ \A i \in 1..Len(surface) : is_kanji(surface[i])
    /\ \E i \in 1..Len(reading_in) : is_katakana(reading_in[i])

\* Removal of every "[...]" annotation: each '[' together with everything up
\* to and including the next ']'; a '[' with no ']' after it stays.
RECURSIVE StripFrom(_, _)
StripFrom(s, i) ==
    IF i > Len(s) THEN <<>>
    ELSE IF s[i] = LBRACKET
         THEN LET closes == {j \in (i + 1)..Len(s) : s[j] = RBRACKET}
              IN IF closes = {} THEN <<s[i]>> \o StripFrom(s, i + 1)
                 ELSE StripFrom(s, Min(closes) + 1)
         ELSE <<s[i]>> \o StripFrom(s, i + 1)

StripBrackets(s) == StripFrom(s, 1)

IsBracket(c) == c = LBRACKET \/ c = RBRACKET

NoBrackets(s) == \A i \in 1..Len(s) : ~IsBracket(s[i])

\* C1 as stated: for all surfaces and readings and either flag value,
\* stripping all "[...]" annotations from the returned string yields surface.
RoundTripAnyInput ==
    pc = "done" => StripBrackets(ret) = surface

\* C1 as amended: for all surfaces and readings that contain neither '[' nor
\* ']', and either flag value, stripping all "[...]" annotations from the
\* returned string yields exactly surface, also when the reading lacks the
\* expected kana anchor.
RoundTripBracketFree ==
    (pc = "done" /\ NoBrackets(surface) /\ NoBrackets(reading_in))
        => StripBrackets(ret) = surface

\* A general-case call on a bracket-free input whose kana anchor is missing
\* from the reading has returned an annotated string.
RoundTripWitness ==
    /\ pc = "done"
    /\ NoBrackets(surface) /\ NoBrackets(reading_in)
    /\ Len(segments) >= 3
    /\ segments[1].type = "KANJI" /\ segments[2].type = "KANA"
    /\ Find(reading, to_hiragana(segments[2].text), 0) = -1
    /\ ret # surface

\* Every emitted piece is the run's text, followed for a KANJI run, and only
\* for a KANJI run, by one bracketed slice of the reading.
PiecesFollowRuns ==
    \A k \in 1..Len(result) :
        IF segments[k].type = "KANJI"
        THEN \E a \in 0..Len(reading) : \E b \in a..Len(reading) :
                 result[k] = Bracketed(segments[k].text, Slice(reading, a, b))
        ELSE result[k] = segments[k].text

\* In the string out, every '[' comes directly after a kanji and is closed by
\* a ']' before any other bracket, and every ']' closes such a '['.
AnnotationsWellFormed(out) ==
    /\ \A i \in 1..Len(out) :
           out[i] = LBRACKET =>
               /\ i > 1 /\ is_kanji(out[i - 1])
               /\ \E j \in (i + 1)..Len(out) :
                      /\ out[j] = RBRACKET
                      /\ \A k \in (i + 1)..(j - 1) : ~IsBracket(out[k])
    /\ \A j \in 1..Len(out) :
           out[j] = RBRACKET =>
               \E i \in 1..(j - 1) :
                   /\ out[i] = LBRACKET
                   /\ \A k \in (i + 1)..(j - 1) : ~IsBracket(out[k])

\* The annotations of out are its "[...]" spans, each from a '[' to the next
\* ']': every one comes directly after a kanji and holds no further '['.
AnnotationsFlatAfterKanji(out) ==
    \A i \in 1..Len(out) : \A j \in (i + 1)..Len(out) :
        (/\ out[i] = LBRACKET
         /\ out[j] = RBRACKET
         /\ \A k \in (i + 1)..(j - 1) : out[k] # RBRACKET)
            => /\ i > 1 /\ is_kanji(out[i - 1])
               /\ \A k \in (i + 1)..(j - 1) : out[k] # LBRACKET

\* C4 as stated: in every output, annotations never nest and each follows the
\* text of an IDEOGRAPH run; SYLLABARY and OTHER runs are emitted verbatim.
AnnotationsOnlyAfterKanjiAnyInput ==
    /\ PiecesFollowRuns
    /\ pc = "done" => AnnotationsFlatAfterKanji(ret)

\* C4 as amended: for surfaces and readings that contain neither '[' nor ']',
\* annotations in the output never nest, each "[...]" immediately follows the
\* text of an IDEOGRAPH run, and every SYLLABARY and OTHER run is emitted
\* verbatim with no bracket attached (so the output holds no bracket outside
\* an annotation).
AnnotationsOnlyAfterKanji ==
    (NoBrackets(surface) /\ NoBrackets(reading_in)) =>
        /\ PiecesFollowRuns
        /\ pc = "done" => /\ AnnotationsFlatAfterKanji(ret)
                          /\ AnnotationsWellFormed(ret)

\* A bracket-free general-case call with two KANJI runs around a KANA run and
\* an OTHER run has returned.
AnnotationsWitness ==
    /\ pc = "done"
    /\ NoBrackets(surface) /\ NoBrackets(reading_in)
    /\ Len(result) = 4
    /\ \E k \in 1..4 : segments[k].type = "OTHER"
    /\ \E k \in 1..4 : segments[k].type = "KANA"
    /\ Cardinality({k \in 1..4 : segments[k].type = "KANJI"}) = 2

\* Number of steps the call can still take: strictly smaller after every step.
StepsLeft ==
    IF pc = "call" THEN Len(surface) + 3
    ELSE IF pc = "loop" THEN Len(segments) + 2 - idx
    ELSE 0

\* A step applies in the current state: the call is at its start, where one
\* of the returns or the entry into the loop applies, or in the loop with a
\* run of one of the three categories to process or the loop's end reached.
SomeBranchApplies ==
    \/ pc = "call"
    \/ /\ pc = "loop"
       /\ idx \in 1..(Len(segments) + 1)
       /\ \A k \in 1..Len(segments) : segments[k].type \in {"KANJI", "KANA", "OTHER"}

\* C3: align_furigana is total: for every surface, reading and flag the call
\* terminates and returns a string, never reaching an error state.  No state
\* is an error state, a step applies in every state short of the return,
\* every step lowers the natural number StepsLeft, and what is returned is a
\* string.
AlwaysReturnsString ==
    /\ [](pc # "raised")
    /\ [](pc # "done" => SomeBranchApplies)
    /\ [](StepsLeft \in Nat)
    /\ [][StepsLeft' < StepsLeft]_vars
    /\ [](pc = "done" => ret \in Seq(Nat))

\* A general-case call has returned although the kana run after its first
\* KANJI run is missing from the reading and the reading is shorter than the
\* surface.
FallbackWitness ==
    /\ pc = "done"
    /\ Len(reading_in) < Len(surface)
    /\ \E k \in 1..(Len(segments) - 1) :
           /\ segments[k].type = "KANJI"
           /\ segments[k + 1].type = "KANA"
           /\ Find(reading, to_hiragana(segments[k + 1].text), 0) = -1
    /\ \E k \in 1..Len(segments) : segments[k].type = "OTHER"

\* C2: in the general case, for every IDEOGRAPH run (the first one and every
\* later one) whose immediately following run is SYLLABARY and whose
\* normalized following text first occurs in the normalized reading at
\* position P at or after the cursor, the reading bracketed after that run is
\* reading[cursor:P] and the cursor afterwards equals P.
AnchoredSliceEveryKanjiRun ==
    [][(/\ InLoop
        /\ segments[idx].type = "KANJI"
        /\ idx < Len(segments)
        /\ segments[idx + 1].type = "KANA"
        /\ Find(reading, to_hiragana(segments[idx + 1].text), reading_pos) >= 0)
       => LET P == Find(reading, to_hiragana(segments[idx + 1].text), reading_pos)
          IN /\ result' = Append(result,
                                 Bracketed(segments[idx].text,
                                           Slice(reading, reading_pos, P)))
             /\ reading_pos' = P]_vars

\* The alignment with the lookahead written as a run-index cursor: run i
\* looks at run i + 1.
RECURSIVE run_index_loop(_, _, _, _, _)
run_index_loop(segs, rd, i, pos, out) ==
    IF i > Len(segs) THEN out
    ELSE IF segs[i].type = "KANJI"
         THEN LET next_kana == IF i < Len(segs) /\ segs[i + 1].type = "KANA"
                               THEN segs[i + 1].text ELSE <<>>
                  step == kanji_step(rd, pos, next_kana)
              IN run_index_loop(segs, rd, i + 1, step.reading_pos,
                                out \o Bracketed(segs[i].text, step.kanji_reading))
         ELSE IF segs[i].type = "KANA"
              THEN run_index_loop(segs, rd, i + 1, kana_step(rd, pos, segs[i].text),
                                  out \o segs[i].text)
              ELSE run_index_loop(segs, rd, i + 1, pos, out \o segs[i].text)

align_run_index(s, rd) ==
    IF input_empty(s, rd) THEN s
    ELSE IF all_kana(segment_surface(s)) THEN s
    ELSE IF single_kanji(segment_surface(s)) THEN Bracketed(s, normalize_reading(rd))
    ELSE run_index_loop(segment_surface(s), normalize_reading(rd), 1, 0, <<>>)

\* C10: the prefix-reconstruction lookahead has the semantics of a run-index
\* cursor: at every IDEOGRAPH run processed in the general case it identifies
\* exactly the index of the current run, so next_kana is set if and only if
\* the next run exists and is SYLLABARY, and the function returns the same
\* string as the run-index version for every input.
LookaheadIsRunIndex ==
    /\ (InLoop /\ segments[idx].type = "KANJI") =>
           /\ lookahead_index(segments, result) = idx - 1
           /\ (lookahead(segments, result).next_kana # <<>>)
                  <=> (idx < Len(segments) /\ segments[idx + 1].type = "KANA")
    /\ pc = "done" => ret = align_run_index(surface, reading_in)


\* C11: processing a SYLLABARY run in the general case always emits the run's
\* original (non-normalized) text unbracketed; the cursor advances by exactly
\* the run's length when the normalized reading at the cursor begins with the
\* normalized run text, and is left unchanged otherwise; processing an OTHER
\* run never changes the cursor.
KanaAndOtherRunEffect ==
    [][/\ (InLoop /\ segments[idx].type = "KANA") =>
              LET text == segments[idx].text
                  n == Len(text)
                  begins == /\ reading_pos + n <= Len(reading)
                            /\ \A k \in 1..n :
                                   reading[reading_pos + k] = to_hiragana(text)[k]
              IN /\ result' = Append(result, text)
                 /\ reading_pos' = IF begins THEN reading_pos + n ELSE reading_pos
       /\ (InLoop /\ segments[idx].type = "OTHER") =>
              /\ result' = Append(result, segments[idx].text)
              /\ reading_pos' = reading_pos]_vars

\* A katakana run opening the surface has been processed: it was emitted as
\* written and the cursor stands behind its hiragana form in the reading, and
\* the OTHER run after it has been processed without moving the cursor.
KanaRunWitness ==
    /\ pc = "loop"
    /\ idx = 3
    /\ segments[1].type = "KANA" /\ segments[2].type = "OTHER"
    /\ \E i \in 1..Len(segments[1].text) : is_katakana(segments[1].text[i])
    /\ result = <<segments[1].text, segments[2].text>>
    /\ reading_pos = Len(segments[1].text)

\* C12: for every surface made of one IDEOGRAPH run K immediately followed by
\* one SYLLABARY run H, and every reading R + normalize(H) with R a non-empty
\* string of the canonical syllabary subset, align_furigana(K + H,
\* R + normalize(H), false) returns K[R]H: the kana run splits the ideograph's
\* reading from what follows, with no reading character lost or unassigned.
OkuriganaAnchorsReading ==
    (/\ pc = "done"
     /\ ~is_jukujikun
     /\ Len(segments) = 2
     /\ segments[1].type = "KANJI"
     /\ segments[2].type = "KANA")
        => \A n \in 1..Len(reading_in) :
               LET R == SubSeq(reading_in, 1, n)
               IN (/\ \A k \in 1..n : is_hiragana(R[k])
                   /\ reading_in = R \o to_hiragana(segments[2].text))
                      => ret = segments[1].text \o <<LBRACKET>> \o R \o <<RBRACKET>>
                                   \o segments[2].text

\* The loop of align_furigana over segments as one evaluation: run i is
\* processed with the cursor at pos and the pieces res emitted so far.
RECURSIVE align_loop(_, _, _, _, _)
align_loop(segs, rd, i, pos, res) ==
    IF i > Len(segs) THEN Join(res)
    ELSE IF segs[i].type = "KANJI"
         THEN LET step == kanji_step(rd, pos, lookahead(segs, res).next_kana)
              IN align_loop(segs, rd, i + 1, step.reading_pos,
                            Append(res, Bracketed(segs[i].text, step.kanji_reading)))
         ELSE IF segs[i].type = "KANA"
              THEN align_loop(segs, rd, i + 1, kana_step(rd, pos, segs[i].text),
                              Append(res, segs[i].text))
              ELSE align_loop(segs, rd, i + 1, pos, Append(res, segs[i].text))

\* align_furigana(surface, reading, is_jukujikun) as one evaluation.
align_furigana(s, rd, flag) ==
    IF input_empty(s, rd) THEN s
    ELSE LET hira == normalize_reading(rd)
             segs == segment_surface(s)
         IN IF all_kana(segs) THEN s
            ELSE IF jukujikun_unit(flag, segs) THEN Bracketed(s, hira)
            ELSE IF single_kanji(segs) THEN Bracketed(s, hira)
            ELSE align_loop(segs, hira, 1, 0, <<>>)

CursorBoundedMonotone ==
    /\ [](0 <= reading_pos /\ reading_pos <= Len(reading))
    /\ [][/\ reading_pos' >= reading_pos
          /\ (pc = "loop" /\ reading_pos = Len(reading))
                 => reading_pos' = Len(reading')]_vars

\* A call has returned after a KANJI run took the remaining reading, with the
\* cursor at the end of the reading, and KANA and OTHER runs were processed
\* after that run.
CursorAtEndWitness ==
    /\ pc = "done"
    /\ Len(segments) = 4
    /\ segments[2].type = "KANJI"
    /\ segments[3].type = "KANA"
    /\ segments[4].type = "OTHER"
    /\ Len(reading) = 2
    /\ result[2] = Bracketed(segments[2].text, SliceFrom(reading, 1))
    /\ reading_pos = Len(reading)

===========================================================================
